---- MODULE Spec2Model ----
(***************************************************************************)
(* The unstable-block store of the bitcoin canister                        *)
(* (src/canister/src/unstable_blocks.rs): a tree of blocks rooted at the   *)
(* anchor, the stability rule of pop, push, and the queries                *)
(* get_main_chain, get_blocks and get_chain_with_tip.                      *)
(*                                                                         *)
(* A block is identified by its hash, a number; the anchor given to new    *)
(* is block 0.  A block's header fixes its previous-block hash, so the     *)
(* universe of blocks is a function prevOf chosen once, in Init: block h   *)
(* names prevOf[h] < h as its previous block (a header can only name a     *)
(* block that was built before it); push takes the blocks in any order.    *)
(* Every block holds one coinbase transaction, whose id is the block's     *)
(* hash, with one output.                                                  *)
(*                                                                         *)
(* A BlockTree is the record [root, children], children being a sequence   *)
(* of BlockTrees, as in the Rust struct.  An Option is a sequence of       *)
(* length at most one: None is << >>, Some(x) is << x >>.                  *)
(*                                                                         *)
(* The ingestion of a transaction into the UTXO set                        *)
(* (src/canister/src/utxoset.rs) is the second part: ingest_tx_with_slicing*)
(* with remove_inputs, insert_outputs and insert_utxo, called at (0, 0) and*)
(* then at every cursor it returns until it returns Done or panics.  The   *)
(* instruction budget of a call is the number of budget checks that pass   *)
(* in it.  A script is one of four kinds, by what is_provably_unspendable, *)
(* Address::from_script and Address::from_str answer for it.  Spec runs the*)
(* block store, SpecIngest the ingestion.                                  *)
(***************************************************************************)
EXTENDS Integers, Sequences, FiniteSets, TLC

\* Blocks 1..MaxBlocks can be pushed; block 0 is the anchor given to new.
MaxBlocks == 4
\* new is called with a stability_threshold in 0..MaxThreshold.
MaxThreshold == 2

\* Transactions have the ids 1..MaxTxId and one of the allow-listed ids.
MaxTxId == 1
\* A transaction has at most MaxInputs inputs and MaxOutputs outputs.
MaxInputs == 2
MaxOutputs == 2
\* At most MaxTxs transactions are ingested, the n-th at height n - 1.
MaxTxs == 2

VARIABLES
    blocks,   \* the UnstableBlocks value: stability_threshold, tree, tx_out_cache
    prevOf,   \* the block universe: prevOf[h] is block h's header.prev_blockhash
    pre,      \* the UnstableBlocks value before the last call
    last,     \* the last call: its name, its block argument, what it returned
    shadow,   \* the tree of a second run: the same pushes and the same pops
              \* that returned a block, without the pops that returned nothing
    stable,   \* the blocks that the pops returned, in the order of the pops
    utxo_set, \* the UtxoSet: utxos and address_to_outpoints
    ingest    \* the ingestion in flight: transaction, height, cursor, calls

blockVars == <<blocks, prevOf, pre, last, shadow, stable>>
ingestVars == <<utxo_set, ingest>>
vars == <<blocks, prevOf, pre, last, shadow, stable, utxo_set, ingest>>

Hashes == 1..MaxBlocks
Anchor == 0
None == << >>
Some(x) == << x >>

Max(a, b) == IF a >= b THEN a ELSE b

----------------------------------------------------------------------------
(* blocktree *)

BlockTreeNew(b) == [root |-> b, children |-> << >>]

\* The number of blocks below the root on the longest path down to a leaf.
RECURSIVE depth(_)
RECURSIVE MaxChildDepth(_, _)
MaxChildDepth(cs, i) ==
    IF i > Len(cs) THEN 0
    ELSE Max(1 + depth(cs[i]), MaxChildDepth(cs, i + 1))
depth(t) == IF t.children = << >> THEN 0 ELSE MaxChildDepth(t.children, 1)

\* The hashes of the blocks of a tree.
RECURSIVE TreeBlocks(_)
TreeBlocks(t) ==
    {t.root} \cup UNION {TreeBlocks(t.children[i]) : i \in 1..Len(t.children)}

contains(t, h) == h \in TreeBlocks(t)

\* The tree with BlockTree::new(b) appended to the children of the node whose
\* block is b's previous block; the tree itself when there is no such node.
RECURSIVE Attach(_, _, _)
Attach(t, b, p) ==
    IF t.root = p
    THEN [t EXCEPT !.children = Append(@, BlockTreeNew(b))]
    ELSE [t EXCEPT !.children =
            [i \in 1..Len(@) |-> Attach(@[i], b, p)]]

\* extend: Ok with the extended tree, or BlockDoesNotExtendTree.
extend(t, b, p) ==
    IF contains(t, p)
    THEN [ok |-> TRUE, tree |-> Attach(t, b, p)]
    ELSE [ok |-> FALSE, tree |-> t]

\* blockchains: every path from the root to a leaf, in the order of the children.
RECURSIVE blockchains(_)
RECURSIVE ChildChains(_, _, _)
ChildChains(root, cs, i) ==
    IF i > Len(cs) THEN << >>
    ELSE LET sub == blockchains(cs[i])
         IN  [k \in 1..Len(sub) |-> <<root>> \o sub[k]]
                \o ChildChains(root, cs, i + 1)
blockchains(t) ==
    IF t.children = << >> THEN << <<t.root>> >>
    ELSE ChildChains(t.root, t.children, 1)

\* blocktree::get_chain_with_tip: the chain from the root to the block tip.
RECURSIVE blocktree_get_chain_with_tip(_, _)
RECURSIVE FirstChainWithTip(_, _, _, _)
FirstChainWithTip(root, cs, tip, i) ==
    IF i > Len(cs) THEN None
    ELSE LET sub == blocktree_get_chain_with_tip(cs[i], tip)
         IN  IF sub # None THEN Some(<<root>> \o sub[1])
             ELSE FirstChainWithTip(root, cs, tip, i + 1)
blocktree_get_chain_with_tip(t, tip) ==
    IF t.root = tip THEN Some(<<t.root>>)
    ELSE FirstChainWithTip(t.root, t.children, tip, 1)

----------------------------------------------------------------------------
(* tx_out_cache *)

\* The height of a block: that of the anchor given to new is the baseline.
RECURSIVE Height(_)
Height(h) == IF h = Anchor THEN 0 ELSE 1 + Height(prevOf[h])

\* The outpoints that block h creates: output 0 of its coinbase transaction.
OutPointsOf(h) == {<<h, 0>>}

TxOutCacheNew == [o \in {} |-> 0]

\* insert: the outputs the block creates, each with the block's height.
TxOutCacheInsert(cache, h) ==
    [o \in DOMAIN cache \cup OutPointsOf(h) |->
        IF o \in OutPointsOf(h) THEN [txout |-> h, height |-> Height(h)]
        ELSE cache[o]]

\* remove: evicts the entries that the block created.
TxOutCacheRemove(cache, h) ==
    [o \in DOMAIN cache \ OutPointsOf(h) |-> cache[o]]

TxOutCacheGet(cache, o) == IF o \in DOMAIN cache THEN Some(cache[o]) ELSE None

----------------------------------------------------------------------------
(* unstable_blocks *)

new(stability_threshold, anchor) ==
    [stability_threshold |-> stability_threshold,
     tree |-> BlockTreeNew(anchor),
     tx_out_cache |-> TxOutCacheInsert(TxOutCacheNew, anchor)]

get_tx_out(b, outpoint) == TxOutCacheGet(b.tx_out_cache, outpoint)

\* sort_by_key(depth): a stable sort, ascending.  InsertByDepth puts x behind
\* every element of the sorted s whose depth is at most that of x.
RECURSIVE InsertByDepth(_, _)
InsertByDepth(s, x) ==
    IF s = << >> THEN <<x>>
    ELSE IF depth(s[Len(s)]) <= depth(x) THEN Append(s, x)
    ELSE Append(InsertByDepth(SubSeq(s, 1, Len(s) - 1), x), s[Len(s)])

RECURSIVE SortByDepth(_)
SortByDepth(s) ==
    IF s = << >> THEN << >>
    ELSE InsertByDepth(SortByDepth(SubSeq(s, 1, Len(s) - 1)), s[Len(s)])

\* pop without the comparison against the second deepest child.
pop_no_sibling_check(b) ==
    LET anchor_child_trees == SortByDepth(b.tree.children)
        n == Len(anchor_child_trees)
    IN  IF n = 0 THEN [ret |-> None, blocks |-> b]
        ELSE IF depth(anchor_child_trees[n]) < b.stability_threshold
        THEN [ret |-> None,
              blocks |-> [b EXCEPT !.tree.children = anchor_child_trees]]
        ELSE [ret |-> Some(b.tree.root),
              blocks |-> [b EXCEPT
                  !.tree = anchor_child_trees[n],
                  !.tx_out_cache = TxOutCacheRemove(@, b.tree.root)]]

\* pop with <= for < in the comparison of the deepest child's depth.
pop_depth_off_by_one(b) ==
    LET anchor_child_trees == SortByDepth(b.tree.children)
        n == Len(anchor_child_trees)
        put_back == [b EXCEPT !.tree.children = anchor_child_trees]
    IN  IF n = 0 THEN [ret |-> None, blocks |-> b]
        ELSE IF depth(anchor_child_trees[n]) <= b.stability_threshold
        THEN [ret |-> None, blocks |-> put_back]
        ELSE IF n >= 2
                /\ depth(anchor_child_trees[n]) - depth(anchor_child_trees[n - 1])
                      < b.stability_threshold
        THEN [ret |-> None, blocks |-> put_back]
        ELSE [ret |-> Some(b.tree.root),
              blocks |-> [b EXCEPT
                  !.tree = anchor_child_trees[n],
                  !.tx_out_cache = TxOutCacheRemove(@, b.tree.root)]]

\* pop that promotes the first child of the sorted children, not the last.
pop_first_child(b) ==
    LET anchor_child_trees == SortByDepth(b.tree.children)
        n == Len(anchor_child_trees)
        put_back == [b EXCEPT !.tree.children = anchor_child_trees]
    IN  IF n = 0 THEN [ret |-> None, blocks |-> b]
        ELSE IF depth(anchor_child_trees[n]) < b.stability_threshold
        THEN [ret |-> None, blocks |-> put_back]
        ELSE IF n >= 2
                /\ depth(anchor_child_trees[n]) - depth(anchor_child_trees[n - 1])
                      < b.stability_threshold
        THEN [ret |-> None, blocks |-> put_back]
        ELSE [ret |-> Some(b.tree.root),
              blocks |-> [b EXCEPT
                  !.tree = anchor_child_trees[1],
                  !.tx_out_cache = TxOutCacheRemove(@, b.tree.root)]]

\* pop that returns the old anchor and leaves the tree it took the children
\* from, without making the deepest child the new tree.
pop_not_rerooted(b) ==
    LET anchor_child_trees == SortByDepth(b.tree.children)
        n == Len(anchor_child_trees)
        put_back == [b EXCEPT !.tree.children = anchor_child_trees]
    IN  IF n = 0 THEN [ret |-> None, blocks |-> b]
        ELSE IF depth(anchor_child_trees[n]) < b.stability_threshold
        THEN [ret |-> None, blocks |-> put_back]
        ELSE IF n >= 2
                /\ depth(anchor_child_trees[n]) - depth(anchor_child_trees[n - 1])
                      < b.stability_threshold
        THEN [ret |-> None, blocks |-> put_back]
        ELSE [ret |-> Some(b.tree.root),
              blocks |-> [b EXCEPT
                  !.tree.children = << >>,
                  !.tx_out_cache = TxOutCacheRemove(@, b.tree.root)]]

\* pop that leaves the cache as it is.
pop_cache_kept(b) ==
    LET anchor_child_trees == SortByDepth(b.tree.children)
        n == Len(anchor_child_trees)
        put_back == [b EXCEPT !.tree.children = anchor_child_trees]
    IN  IF n = 0 THEN [ret |-> None, blocks |-> b]
        ELSE IF depth(anchor_child_trees[n]) < b.stability_threshold
        THEN [ret |-> None, blocks |-> put_back]
        ELSE IF n >= 2
                /\ depth(anchor_child_trees[n]) - depth(anchor_child_trees[n - 1])
                      < b.stability_threshold
        THEN [ret |-> None, blocks |-> put_back]
        ELSE [ret |-> Some(b.tree.root),
              blocks |-> [b EXCEPT !.tree = anchor_child_trees[n]]]

\* pop that does not give the taken children back when it returns nothing.
pop_children_dropped(b) ==
    LET anchor_child_trees == SortByDepth(b.tree.children)
        n == Len(anchor_child_trees)
        taken == [b EXCEPT !.tree.children = << >>]
    IN  IF n = 0 THEN [ret |-> None, blocks |-> b]
        ELSE IF depth(anchor_child_trees[n]) < b.stability_threshold
        THEN [ret |-> None, blocks |-> taken]
        ELSE IF n >= 2
                /\ depth(anchor_child_trees[n]) - depth(anchor_child_trees[n - 1])
                      < b.stability_threshold
        THEN [ret |-> None, blocks |-> taken]
        ELSE [ret |-> Some(b.tree.root),
              blocks |-> [b EXCEPT
                  !.tree = anchor_child_trees[n],
                  !.tx_out_cache = TxOutCacheRemove(@, b.tree.root)]]

\* pop that returns the promoted child instead of the old anchor.
pop_returns_promoted(b) ==
    LET anchor_child_trees == SortByDepth(b.tree.children)
        n == Len(anchor_child_trees)
        put_back == [b EXCEPT !.tree.children = anchor_child_trees]
    IN  IF n = 0 THEN [ret |-> None, blocks |-> b]
        ELSE IF depth(anchor_child_trees[n]) < b.stability_threshold
        THEN [ret |-> None, blocks |-> put_back]
        ELSE IF n >= 2
                /\ depth(anchor_child_trees[n]) - depth(anchor_child_trees[n - 1])
                      < b.stability_threshold
        THEN [ret |-> None, blocks |-> put_back]
        ELSE [ret |-> Some(anchor_child_trees[n].root),
              blocks |-> [b EXCEPT
                  !.tree = anchor_child_trees[n],
                  !.tx_out_cache = TxOutCacheRemove(@, b.tree.root)]]

\* pop: what it returns and the UnstableBlocks value it leaves.
pop(b) ==
    LET anchor_child_trees == SortByDepth(b.tree.children)
        n == Len(anchor_child_trees)
        put_back == [b EXCEPT !.tree.children = anchor_child_trees]
    IN  IF n = 0 THEN [ret |-> None, blocks |-> b]
        ELSE IF depth(anchor_child_trees[n]) < b.stability_threshold
        THEN [ret |-> None, blocks |-> put_back]
        ELSE IF n >= 2
                /\ depth(anchor_child_trees[n]) - depth(anchor_child_trees[n - 1])
                      < b.stability_threshold
        THEN [ret |-> None, blocks |-> put_back]
        ELSE [ret |-> Some(b.tree.root),
              blocks |-> [b EXCEPT
                  !.tree = anchor_child_trees[n],
                  !.tx_out_cache = TxOutCacheRemove(@, b.tree.root)]]

\* push that answers Ok whatever extend returned.
push_error_dropped(b, block) ==
    LET cached == [b EXCEPT !.tx_out_cache = TxOutCacheInsert(@, block)]
        extended == extend(cached.tree, block, prevOf[block])
    IN  [ret |-> "Ok", blocks |-> [cached EXCEPT !.tree = extended.tree]]

\* push that extends the tree with the block a second time.
push_extended_twice(b, block) ==
    LET cached == [b EXCEPT !.tx_out_cache = TxOutCacheInsert(@, block)]
        extended == extend(cached.tree, block, prevOf[block])
        again == extend(extended.tree, block, prevOf[block])
    IN  IF extended.ok
        THEN [ret |-> "Ok", blocks |-> [cached EXCEPT !.tree = again.tree]]
        ELSE [ret |-> "DoesNotExtendTree", blocks |-> cached]

\* push: the block enters the cache first, then the tree; the error of extend
\* is returned after the cache was written.
push(b, block) ==
    LET cached == [b EXCEPT !.tx_out_cache = TxOutCacheInsert(@, block)]
        extended == extend(cached.tree, block, prevOf[block])
    IN  IF extended.ok
        THEN [ret |-> "Ok", blocks |-> [cached EXCEPT !.tree = extended.tree]]
        ELSE [ret |-> "DoesNotExtendTree", blocks |-> cached]

\* The loop of get_main_chain over height_idx, from position h of the longest
\* chains on (position 1 holds the anchor).
RECURSIVE MainChainLoop(_, _, _, _)
MainChainLoop(longest_blockchains, longest_blockchain_len, h, main_chain) ==
    IF h > longest_blockchain_len THEN main_chain
    ELSE IF \E k \in 2..Len(longest_blockchains) :
                longest_blockchains[k][h] # longest_blockchains[1][h]
    THEN main_chain
    ELSE MainChainLoop(longest_blockchains, longest_blockchain_len, h + 1,
                       Append(main_chain, longest_blockchains[1][h]))

RECURSIVE MaxLen(_, _)
MaxLen(chains, i) ==
    IF i > Len(chains) THEN 0 ELSE Max(Len(chains[i]), MaxLen(chains, i + 1))

\* get_main_chain that walks every blockchain, not only the longest ones.
get_main_chain_unfiltered(b) ==
    LET chains == blockchains(b.tree)
        longest_blockchain_len == MaxLen(chains, 1)
        shortest == CHOOSE n \in {Len(chains[i]) : i \in 1..Len(chains)} :
                        \A i \in 1..Len(chains) : n <= Len(chains[i])
    IN  [panic |-> FALSE,
         chain |-> MainChainLoop(chains, shortest, 2, <<chains[1][1]>>)]

\* get_main_chain: panics when longest_blockchains[0][0] does not exist.
get_main_chain(b) ==
    LET chains == blockchains(b.tree)
        longest_blockchain_len == MaxLen(chains, 1)
        longest_blockchains ==
            SelectSeq(chains, LAMBDA bc : Len(bc) = longest_blockchain_len)
    IN  IF longest_blockchains = << >> \/ longest_blockchains[1] = << >>
        THEN [panic |-> TRUE, chain |-> << >>]
        ELSE [panic |-> FALSE,
              chain |-> MainChainLoop(longest_blockchains, longest_blockchain_len,
                                      2, <<longest_blockchains[1][1]>>)]

RECURSIVE Flatten(_, _)
Flatten(chains, i) ==
    IF i > Len(chains) THEN << >> ELSE chains[i] \o Flatten(chains, i + 1)

\* get_blocks that returns the first blockchain only.
get_blocks_first_chain(b) == blockchains(b.tree)[1]

get_blocks(b) == Flatten(blockchains(b.tree), 1)

get_chain_with_tip(b, tip) == blocktree_get_chain_with_tip(b.tree, tip)

----------------------------------------------------------------------------
(* utxoset *)

\* An outpoint is <<txid, vout>>.  The outpoint a coinbase input names is the
\* null outpoint, which no transaction's output has.
NullOutPoint == <<0, 0>>

\* The two transaction ids for which insert_utxo accepts an outpoint that is
\* already in the set.
DUPLICATE_TX_IDS == {101, 102}

\* The transaction ids of the model: the ordinary ones and an allow-listed one.
TxIds == (1..MaxTxId) \cup {101}

\* The outpoints an input can name.
OutPoints == TxIds \X (0..(MaxOutputs - 1))

\* The kinds of output script: a script with an address, a script with no
\* address, a script whose address has a text that does not parse back into an
\* address, and a provably unspendable script.
Scripts == {"p2pkh", "nonstandard", "malformed", "op_return"}

is_provably_unspendable(script_pubkey) == script_pubkey = "op_return"

\* Address::from_script: the address of a script, if it has one.
AddressFromScript(script_pubkey) ==
    CASE script_pubkey = "p2pkh"     -> Some([payload |-> "hash160"])
      [] script_pubkey = "malformed" -> Some([payload |-> "bad-program"])
      [] OTHER                       -> None

\* Address::to_string: the text of an address.
AddressToString(address) == <<"addr", address.payload>>

\* Address::from_str(..).is_ok(): whether a text parses into an address.
AddressFromStrIsOk(address_str) == address_str = <<"addr", "hash160">>

TxOut(script_pubkey) == [script_pubkey |-> script_pubkey]

\* tx.is_coin_base(): exactly one input, which names the null outpoint.
is_coin_base(tx) == Len(tx.input) = 1 /\ tx.input[1] = NullOutPoint

\* The empty UtxoSet.
UtxoSetNew == [utxos |-> << >>, address_to_outpoints |-> {}]

\* What a call returns: Slicing::Done, Slicing::Paused(idx), or a panic, which
\* aborts the call and leaves the writes made so far.
Done == [kind |-> "Done", idx |-> 0, msg |-> ""]
Paused(idx) == [kind |-> "Paused", idx |-> idx, msg |-> ""]
Panic(msg) == [kind |-> "Panic", idx |-> 0, msg |-> msg]

\* performance_counter() >= MAX_INSTRUCTIONS_THRESHOLD is checked before every
\* item.  The counter only grows during a call, so a call is given a number
\* fuel of checks that pass: every later check fails.
BudgetExhausted(fuel) == fuel = 0

UtxosRemove(utxos, outpoint) ==
    [o \in DOMAIN utxos \ {outpoint} |-> utxos[o]]

UtxosInsert(utxos, outpoint, entry) ==
    [o \in DOMAIN utxos \cup {outpoint} |->
        IF o = outpoint THEN entry ELSE utxos[o]]

\* The loop of remove_inputs from input input_idx on.
RECURSIVE RemoveInputsLoop(_, _, _, _)
RemoveInputsLoop(us, tx, input_idx, fuel) ==
    IF input_idx >= Len(tx.input)
    THEN [utxo_set |-> us, fuel |-> fuel, ret |-> Done]
    ELSE IF BudgetExhausted(fuel)
    THEN [utxo_set |-> us, fuel |-> fuel, ret |-> Paused(input_idx)]
    ELSE
      LET previous_output == tx.input[input_idx + 1]
      IN  IF previous_output \notin DOMAIN us.utxos
          THEN [utxo_set |-> us, fuel |-> fuel,
                ret |-> Panic("Outpoint not found.")]
          ELSE
            LET entry == us.utxos[previous_output]
                removed ==
                    [us EXCEPT !.utxos = UtxosRemove(@, previous_output)]
                address == AddressFromScript(entry.txout.script_pubkey)
                key == <<AddressToString(address[1]), entry.height,
                         previous_output>>
            IN  IF address = None
                THEN RemoveInputsLoop(removed, tx, input_idx + 1, fuel - 1)
                ELSE IF key \notin removed.address_to_outpoints
                THEN [utxo_set |-> removed, fuel |-> fuel,
                      ret |-> Panic("Outpoint not found in the index.")]
                ELSE RemoveInputsLoop(
                        [removed EXCEPT !.address_to_outpoints = @ \ {key}],
                        tx, input_idx + 1, fuel - 1)

\* remove_inputs that takes an input whose outpoint is not in the set as
\* already spent.
remove_inputs_absent_skipped(us, tx, start_idx, fuel) ==
    IF is_coin_base(tx)
    THEN [utxo_set |-> us, fuel |-> fuel, ret |-> Done]
    ELSE LET r == RemoveInputsLoop(us, tx, start_idx, fuel)
         IN  IF r.ret.kind = "Panic"
             THEN [utxo_set |-> us, fuel |-> fuel, ret |-> Done]
             ELSE r

\* remove_inputs without the coinbase test.
remove_inputs_coinbase_spends(us, tx, start_idx, fuel) ==
    RemoveInputsLoop(us, tx, start_idx, fuel)

remove_inputs(us, tx, start_idx, fuel) ==
    IF is_coin_base(tx)
    THEN [utxo_set |-> us, fuel |-> fuel, ret |-> Done]
    ELSE RemoveInputsLoop(us, tx, start_idx, fuel)

\* insert_utxo that indexes every output that has an address.
insert_utxo_unvalidated(us, outpoint, output, height) ==
    LET address == AddressFromScript(output.script_pubkey)
        indexed ==
            IF address # None
            THEN [us EXCEPT !.address_to_outpoints =
                     @ \cup {<<AddressToString(address[1]), height, outpoint>>}]
            ELSE us
        outpoint_already_exists == outpoint \in DOMAIN us.utxos
    IN  [utxo_set |->
            [indexed EXCEPT !.utxos =
                UtxosInsert(@, outpoint, [txout |-> output, height |-> height])],
         panic |-> outpoint_already_exists
                   /\ outpoint[1] \notin DUPLICATE_TX_IDS]

\* insert_utxo without the allow-list.
insert_utxo_no_allow_list(us, outpoint, output, height) ==
    LET address == AddressFromScript(output.script_pubkey)
        indexed ==
            IF address # None /\ AddressFromStrIsOk(AddressToString(address[1]))
            THEN [us EXCEPT !.address_to_outpoints =
                     @ \cup {<<AddressToString(address[1]), height, outpoint>>}]
            ELSE us
        outpoint_already_exists == outpoint \in DOMAIN us.utxos
    IN  [utxo_set |->
            [indexed EXCEPT !.utxos =
                UtxosInsert(@, outpoint, [txout |-> output, height |-> height])],
         panic |-> outpoint_already_exists]

insert_utxo(us, outpoint, output, height) ==
    LET address == AddressFromScript(output.script_pubkey)
        indexed ==
            IF address # None /\ AddressFromStrIsOk(AddressToString(address[1]))
            THEN [us EXCEPT !.address_to_outpoints =
                     @ \cup {<<AddressToString(address[1]), height, outpoint>>}]
            ELSE us
        outpoint_already_exists == outpoint \in DOMAIN us.utxos
    IN  [utxo_set |->
            [indexed EXCEPT !.utxos =
                UtxosInsert(@, outpoint, [txout |-> output, height |-> height])],
         panic |-> outpoint_already_exists
                   /\ outpoint[1] \notin DUPLICATE_TX_IDS]

\* The loop of insert_outputs from output vout on.
RECURSIVE InsertOutputsLoop(_, _, _, _, _)
InsertOutputsLoop(us, tx, height, vout, fuel) ==
    IF vout >= Len(tx.output)
    THEN [utxo_set |-> us, fuel |-> fuel, ret |-> Done]
    ELSE IF BudgetExhausted(fuel)
    THEN [utxo_set |-> us, fuel |-> fuel, ret |-> Paused(vout)]
    ELSE
      LET output == tx.output[vout + 1]
          r == insert_utxo(us, <<tx.txid, vout>>, output, height)
      IN  IF is_provably_unspendable(output.script_pubkey)
          THEN InsertOutputsLoop(us, tx, height, vout + 1, fuel - 1)
          ELSE IF r.panic
          THEN [utxo_set |-> r.utxo_set, fuel |-> fuel,
                ret |-> Panic("Cannot insert outpoint: already inserted.")]
          ELSE InsertOutputsLoop(r.utxo_set, tx, height, vout + 1, fuel - 1)

\* The loop of an insert_outputs that numbers the outputs it inserts, instead
\* of taking an output's position in the transaction.
RECURSIVE InsertOutputsCompactedLoop(_, _, _, _, _, _)
InsertOutputsCompactedLoop(us, tx, height, vout, next_vout, fuel) ==
    IF vout >= Len(tx.output)
    THEN [utxo_set |-> us, fuel |-> fuel, ret |-> Done]
    ELSE IF BudgetExhausted(fuel)
    THEN [utxo_set |-> us, fuel |-> fuel, ret |-> Paused(vout)]
    ELSE
      LET output == tx.output[vout + 1]
          r == insert_utxo(us, <<tx.txid, next_vout>>, output, height)
      IN  IF is_provably_unspendable(output.script_pubkey)
          THEN InsertOutputsCompactedLoop(us, tx, height, vout + 1, next_vout,
                                          fuel - 1)
          ELSE IF r.panic
          THEN [utxo_set |-> r.utxo_set, fuel |-> fuel,
                ret |-> Panic("Cannot insert outpoint: already inserted.")]
          ELSE InsertOutputsCompactedLoop(r.utxo_set, tx, height, vout + 1,
                                          next_vout + 1, fuel - 1)

insert_outputs_compacted(us, tx, height, start_idx, fuel) ==
    InsertOutputsCompactedLoop(us, tx, height, start_idx, 0, fuel)

\* insert_outputs that, when it pauses, returns the index it started from.
insert_outputs_pause_at_start(us, tx, height, start_idx, fuel) ==
    LET r == InsertOutputsLoop(us, tx, height, start_idx, fuel)
    IN  IF r.ret.kind = "Paused"
        THEN [r EXCEPT !.ret = Paused(start_idx)]
        ELSE r

insert_outputs(us, tx, height, start_idx, fuel) ==
    InsertOutputsLoop(us, tx, height, start_idx, fuel)

\* A result of ingest_tx_with_slicing: the set after the call and what the
\* call returned, Paused carrying the pair (input_idx, output_idx).
Ingested(us, kind, input_idx, output_idx, msg) ==
    [utxo_set |-> us,
     ret |-> [kind |-> kind, cursor |-> <<input_idx, output_idx>>,
              msg |-> msg]]

\* ingest_tx_with_slicing that inserts the outputs before it removes the
\* inputs.
ingest_tx_with_slicing_outputs_first(us, tx, height, start_input_idx, start_output_idx, fuel) ==
    LET w == insert_outputs(us, tx, height, start_output_idx, fuel)
        r == remove_inputs(w.utxo_set, tx, start_input_idx, w.fuel)
    IN  IF w.ret.kind = "Panic"
        THEN Ingested(w.utxo_set, "Panic", 0, 0, w.ret.msg)
        ELSE IF r.ret.kind = "Panic"
        THEN Ingested(r.utxo_set, "Panic", 0, 0, r.ret.msg)
        ELSE IF r.ret.kind = "Paused"
        THEN Ingested(r.utxo_set, "Paused", r.ret.idx,
                      IF w.ret.kind = "Paused" THEN w.ret.idx
                      ELSE Len(tx.output), "")
        ELSE IF w.ret.kind = "Paused"
        THEN Ingested(r.utxo_set, "Paused", Len(tx.input), w.ret.idx, "")
        ELSE Ingested(r.utxo_set, "Done", 0, 0, "")

\* ingest_tx_with_slicing that starts again from the first input and the
\* first output, whatever cursor it is given.
ingest_tx_with_slicing_restarts(us, tx, height, start_input_idx, start_output_idx, fuel) ==
    LET r == remove_inputs(us, tx, 0, fuel)
        w == insert_outputs(r.utxo_set, tx, height, 0, r.fuel)
    IN  IF r.ret.kind = "Paused"
        THEN Ingested(r.utxo_set, "Paused", r.ret.idx, 0, "")
        ELSE IF r.ret.kind = "Panic"
        THEN Ingested(r.utxo_set, "Panic", 0, 0, r.ret.msg)
        ELSE IF w.ret.kind = "Paused"
        THEN Ingested(w.utxo_set, "Paused", Len(tx.input), w.ret.idx, "")
        ELSE IF w.ret.kind = "Panic"
        THEN Ingested(w.utxo_set, "Panic", 0, 0, w.ret.msg)
        ELSE Ingested(w.utxo_set, "Done", 0, 0, "")

ingest_tx_with_slicing(us, tx, height, start_input_idx, start_output_idx, fuel) ==
    LET r == remove_inputs(us, tx, start_input_idx, fuel)
        w == insert_outputs(r.utxo_set, tx, height, start_output_idx, r.fuel)
    IN  IF r.ret.kind = "Paused"
        THEN Ingested(r.utxo_set, "Paused", r.ret.idx, 0, "")
        ELSE IF r.ret.kind = "Panic"
        THEN Ingested(r.utxo_set, "Panic", 0, 0, r.ret.msg)
        ELSE IF w.ret.kind = "Paused"
        THEN Ingested(w.utxo_set, "Paused", Len(tx.input), w.ret.idx, "")
        ELSE IF w.ret.kind = "Panic"
        THEN Ingested(w.utxo_set, "Panic", 0, 0, w.ret.msg)
        ELSE Ingested(w.utxo_set, "Done", 0, 0, "")

\* The transactions.  A transaction is a coinbase or names no outpoint of its
\* own (an outpoint's id is the hash of the transaction that made it).
SeqsUpTo(S, n) == UNION {[1..k -> S] : k \in 0..n}

Inputs(txid) ==
    {<<NullOutPoint>>}
        \cup SeqsUpTo({o \in OutPoints : o[1] # txid}, MaxInputs)

Outputs == SeqsUpTo({TxOut(s) : s \in Scripts}, MaxOutputs)

Transactions ==
    UNION {[txid : {txid}, input : Inputs(txid), output : Outputs] :
              txid \in TxIds}

NoTx == [txid |-> 0, input |-> << >>, output |-> << >>]

\* The number of checks of the budget that pass in one call: any number up to
\* the number of items of the transaction, which is as good as no limit.
Fuels(tx) == 0..(Len(tx.input) + Len(tx.output))

\* The ingestion in flight.  start is the set before the transaction's first
\* call, before the set before the last call, call the last call's cursor and
\* whether it found the budget exhausted at once, ret what it returned, calls
\* the number of calls for the transaction that did not find the budget
\* exhausted at once, and prev the transactions ingested before, each with the
\* set before it.
IngestIdle ==
    [status |-> "idle", tx |-> NoTx, height |-> 0, start |-> UtxoSetNew,
     before |-> UtxoSetNew,
     call |-> [cursor |-> <<0, 0>>, exhausted |-> FALSE],
     ret |-> [kind |-> "Done", cursor |-> <<0, 0>>, msg |-> ""],
     calls |-> 0, prev |-> << >>]

StatusOf(kind) ==
    CASE kind = "Done" -> "done"
      [] kind = "Paused" -> "paused"
      [] kind = "Panic" -> "panic"

----------------------------------------------------------------------------
(* The calls *)

Call(op, block, popped, pushed) ==
    [op |-> op, block |-> block, popped |-> popped, pushed |-> pushed]

\* The block universes.  A hash is only a name, so the blocks of a universe are
\* numbered breadth first: a block names an earlier block, and a later block
\* does not name an earlier previous block than the block before it.  Every
\* shape of universe has such a numbering, and push takes the blocks in any
\* order.
PrevFunctions ==
    {f \in [Hashes -> 0..(MaxBlocks - 1)] :
        /\ \A h \in Hashes : f[h] < h
        /\ \A h \in Hashes \ {MaxBlocks} : f[h] <= f[h + 1]}

Init ==
    /\ prevOf \in PrevFunctions
    /\ \E t \in 0..MaxThreshold : blocks = new(t, Anchor)
    /\ pre = blocks
    /\ last = Call("new", Anchor, None, "Ok")
    /\ shadow = blocks
    /\ stable = << >>
    /\ utxo_set = UtxoSetNew
    /\ ingest = IngestIdle

\* push(block), for a block that is not in the tree (a block is handed to push
\* once; a block whose push was rejected may be pushed again).
Push(block) ==
    /\ ~contains(blocks.tree, block)
    /\ LET r == push(blocks, block)
       IN  /\ blocks' = r.blocks
           /\ last' = Call("push", block, None, r.ret)
    /\ pre' = blocks
    /\ shadow' = push(shadow, block).blocks
    /\ UNCHANGED <<prevOf, stable, ingestVars>>

Pop ==
    /\ LET r == pop(blocks)
       IN  /\ blocks' = r.blocks
           /\ last' = Call("pop", blocks.tree.root, r.ret, "Ok")
           /\ shadow' = IF r.ret = None THEN shadow ELSE pop(shadow).blocks
           /\ stable' = stable \o r.ret
    /\ pre' = blocks
    /\ UNCHANGED <<prevOf, ingestVars>>

Next ==
    \/ \E block \in Hashes : Push(block)
    \/ Pop

Spec == Init /\ [][Next]_vars


\* The first call of ingest_tx_with_slicing for a transaction, at the cursor
\* (0, 0), after the transaction before it was ingested completely.  A
\* transaction id names one transaction.
StartIngest(tx, fuel) ==
    /\ ingest.status \in {"idle", "done"}
    /\ Len(ingest.prev) + (IF ingest.status = "done" THEN 1 ELSE 0) < MaxTxs
    /\ ingest.tx.txid = tx.txid => ingest.tx = tx
    /\ \A i \in DOMAIN ingest.prev :
           ingest.prev[i].tx.txid = tx.txid => ingest.prev[i].tx = tx
    /\ LET prev == IF ingest.status = "done"
                   THEN Append(ingest.prev,
                               [tx |-> ingest.tx, start |-> ingest.start])
                   ELSE ingest.prev
           height == Len(prev)
           r == ingest_tx_with_slicing(utxo_set, tx, height, 0, 0, fuel)
       IN  /\ utxo_set' = r.utxo_set
           /\ ingest' = [status |-> StatusOf(r.ret.kind), tx |-> tx,
                         height |-> height, start |-> utxo_set,
                         before |-> utxo_set,
                         call |-> [cursor |-> <<0, 0>>,
                                   exhausted |-> BudgetExhausted(fuel)],
                         ret |-> r.ret,
                         calls |-> IF BudgetExhausted(fuel) THEN 0 ELSE 1,
                         prev |-> prev]
    /\ UNCHANGED blockVars

\* The next call for a transaction whose last call paused, at the cursor that
\* call returned.
ResumeIngest(fuel) ==
    /\ ingest.status = "paused"
    /\ LET r == ingest_tx_with_slicing(utxo_set, ingest.tx, ingest.height,
                                       ingest.ret.cursor[1],
                                       ingest.ret.cursor[2], fuel)
       IN  /\ utxo_set' = r.utxo_set
           /\ ingest' = [ingest EXCEPT
                            !.status = StatusOf(r.ret.kind),
                            !.before = utxo_set,
                            !.call = [cursor |-> ingest.ret.cursor,
                                      exhausted |-> BudgetExhausted(fuel)],
                            !.ret = r.ret,
                            !.calls = IF BudgetExhausted(fuel) THEN @
                                      ELSE @ + 1]
    /\ UNCHANGED blockVars

InitIngest ==
    /\ prevOf = [h \in Hashes |-> Anchor]
    /\ blocks = new(0, Anchor)
    /\ pre = blocks
    /\ last = Call("new", Anchor, None, "Ok")
    /\ shadow = blocks
    /\ stable = << >>
    /\ utxo_set = UtxoSetNew
    /\ ingest = IngestIdle

NextIngest ==
    \/ \E tx \in Transactions : \E fuel \in Fuels(tx) : StartIngest(tx, fuel)
    \/ \E fuel \in Fuels(ingest.tx) : ResumeIngest(fuel)

SpecIngest == InitIngest /\ [][NextIngest]_vars

\* The caller calls again after a pause, and the budget of a new call is not
\* exhausted for ever: a call that passes its first budget check comes.
ResumeWithBudget ==
    \E fuel \in Fuels(ingest.tx) \ {0} : ResumeIngest(fuel)

SpecIngestFair == SpecIngest /\ WF_vars(ResumeWithBudget)

----------------------------------------------------------------------------
(* Helpers of the properties *)

LastPop == last.op = "pop"
LastPush == last.op = "push"
Popped == LastPop /\ last.popped # None
FailedPop == LastPop /\ last.popped = None

SeqSet(s) == {s[i] : i \in 1..Len(s)}

\* The blocks of the children of the node that holds block x, in their order.
RECURSIVE ChildrenOf(_, _)
RECURSIVE ChildrenOfIn(_, _, _)
ChildrenOfIn(cs, x, i) ==
    IF i > Len(cs) THEN << >>
    ELSE ChildrenOf(cs[i], x) \o ChildrenOfIn(cs, x, i + 1)
ChildrenOf(t, x) ==
    IF t.root = x THEN [i \in 1..Len(t.children) |-> t.children[i].root]
    ELSE ChildrenOfIn(t.children, x, 1)

\* The depth that counts the node itself: a leaf has depth 1.
RECURSIVE DepthInclusive(_)
DepthInclusive(t) ==
    LET ds == {DepthInclusive(t.children[i]) : i \in 1..Len(t.children)}
    IN  1 + (IF ds = {} THEN 0 ELSE CHOOSE d \in ds : \A e \in ds : e <= d)

\* The depth that does not count the node itself: a leaf has depth 0.
DepthBelow(t) == DepthInclusive(t) - 1

\* Some child of the root is stable, under the depth D.
StableChildExists(b, D(_)) ==
    LET cs == b.tree.children
    IN  \E i \in 1..Len(cs) :
            /\ D(cs[i]) >= b.stability_threshold
            /\ \A j \in 1..Len(cs) :
                  j # i => D(cs[i]) - D(cs[j]) >= b.stability_threshold

\* Every node has at most one child.
RECURSIVE IsChain(_)
IsChain(t) ==
    /\ Len(t.children) <= 1
    /\ \A i \in 1..Len(t.children) : IsChain(t.children[i])

----------------------------------------------------------------------------
(* The properties *)

\* C1, as stated: pop returns the anchor iff some child C of the anchor has
\* depth(C) >= stability_threshold and depth(C) - depth(C') >=
\* stability_threshold for every sibling C', depth counting the node itself (a
\* leaf has depth 1); otherwise it returns nothing.
C1_PopIffStableChildInclusiveDepth ==
    LastPop =>
        /\ last.popped \in {None, Some(pre.tree.root)}
        /\ last.popped # None <=> StableChildExists(pre, DepthInclusive)

\* C1, amended: the same with the depth that counts the blocks below the node
\* on the longest path down to a leaf, the node itself excluded (a leaf has
\* depth 0).
C1_PopIffStableChild ==
    LastPop =>
        /\ last.popped \in {None, Some(pre.tree.root)}
        /\ last.popped # None <=> StableChildExists(pre, DepthBelow)

\* A pop, with a threshold of at least 1, that returned the anchor of a forest
\* in which the anchor has two children.
C1_Witness ==
    Popped /\ Len(pre.tree.children) >= 2 /\ pre.stability_threshold >= 1

\* C2: on a single chain of n blocks after the anchor pop returns the anchor
\* iff n >= 1 and n - 1 >= t, and then the first chain block is the new anchor
\* of the rest of the chain; with t = 1, n = 2 the next pop returns nothing;
\* with t = 0, n = 2 the next pop returns the child and the one after nothing.
C2_SingleChain ==
    (LastPop /\ IsChain(pre.tree)) =>
        LET n == Cardinality(TreeBlocks(pre.tree)) - 1
            t == pre.stability_threshold
        IN  /\ last.popped \in {None, Some(pre.tree.root)}
            /\ last.popped # None <=> (n >= 1 /\ n - 1 >= t)
            /\ last.popped # None => blocks.tree = pre.tree.children[1]
            /\ (t = 1 /\ n = 1) => last.popped = None
            /\ (t = 1 /\ n = 2) =>
                  /\ last.popped = Some(pre.tree.root)
                  /\ blocks.tree.root = pre.tree.children[1].root
                  /\ pop(blocks).ret = None
            /\ (t = 0 /\ n = 2) =>
                  /\ last.popped = Some(pre.tree.root)
                  /\ pop(blocks).ret = Some(pre.tree.children[1].root)
                  /\ pop(pop(blocks).blocks).ret = None

\* A pop on a chain of two blocks with threshold 1.
C2_Witness ==
    /\ Popped /\ IsChain(pre.tree)
    /\ Cardinality(TreeBlocks(pre.tree)) = 3
    /\ pre.stability_threshold = 1

\* C3: a pop that returns nothing leaves the UnstableBlocks value as it was:
\* the threshold, the tree with the order of the children at every node, and
\* the output cache.
C3_FailedPopChangesNothing == FailedPop => blocks = pre

\* C4: a pop that returns a block returns the old anchor; the tree is then the
\* subtree of a deepest child of the old anchor, one block further; the old
\* anchor and the blocks of the other children are in neither get_blocks nor
\* get_chain_with_tip.
C4_PopReroots ==
    Popped =>
        LET cs == pre.tree.children
            gone == TreeBlocks(pre.tree) \ TreeBlocks(blocks.tree)
        IN  /\ last.popped = Some(pre.tree.root)
            /\ \E i \in 1..Len(cs) :
                  /\ blocks.tree = cs[i]
                  /\ \A j \in 1..Len(cs) : DepthBelow(cs[j]) <= DepthBelow(cs[i])
                  /\ gone = {pre.tree.root} \cup
                        UNION {TreeBlocks(cs[j]) : j \in (1..Len(cs)) \ {i}}
            /\ prevOf[blocks.tree.root] = pre.tree.root
            /\ \A x \in gone :
                  /\ x \notin SeqSet(get_blocks(blocks))
                  /\ get_chain_with_tip(blocks, x) = None

\* A pop that discarded a sibling and left an anchor that has a stable child.
C4_Witness ==
    /\ Popped /\ Len(pre.tree.children) >= 2
    /\ pop(blocks).ret # None

C6_RejectedPushChangesNothing ==
    (LastPush /\ last.pushed = "DoesNotExtendTree") =>
        /\ blocks = pre
        /\ \A h \in 0..MaxBlocks :
              get_tx_out(blocks, <<h, 0>>) = get_tx_out(pre, <<h, 0>>)

\* The path from the anchor to block x of the forest, by the previous-block
\* references.
RECURSIVE PathTo(_)
PathTo(x) ==
    IF x = blocks.tree.root THEN <<x>> ELSE Append(PathTo(prevOf[x]), x)

\* The paths from the anchor to the leaves, and the longest of them.
LeafPaths ==
    {PathTo(x) : x \in {y \in TreeBlocks(blocks.tree) :
                            ChildrenOf(blocks.tree, y) = << >>}}
LongestLen == CHOOSE n \in {Len(p) : p \in LeafPaths} :
                  \A p \in LeafPaths : Len(p) <= n
LongestPaths == {p \in LeafPaths : Len(p) = LongestLen}

\* All longest paths hold the same block at every position 1..h.
Agreed(h) == \A p, q \in LongestPaths : \A j \in 1..h : p[j] = q[j]

C8_MainChainTipUncontested ==
    LET c == get_main_chain(blocks).chain
        tip == c[Len(c)]
    IN  \A x \in TreeBlocks(blocks.tree) \ {tip} :
            Len(PathTo(x)) # Len(PathTo(tip))

\* C9: get_chain_with_tip(tip) is the path from the anchor to the block tip,
\* each block the previous block of the next, iff the block is in the forest,
\* and nothing otherwise; after a pop that returned a block it is nothing for
\* the old anchor and for every block of a discarded subtree.
C9_ChainWithTip ==
    /\ \A tip \in 0..MaxBlocks :
          LET r == get_chain_with_tip(blocks, tip)
          IN  /\ r # None <=> tip \in TreeBlocks(blocks.tree)
              /\ r # None =>
                    LET c == r[1]
                    IN  /\ c[1] = blocks.tree.root
                        /\ c[Len(c)] = tip
                        /\ \A i \in 1..(Len(c) - 1) :
                              /\ prevOf[c[i + 1]] = c[i]
                              /\ c[i + 1] \in SeqSet(ChildrenOf(blocks.tree, c[i]))
    /\ Popped =>
          /\ get_chain_with_tip(blocks, pre.tree.root) = None
          /\ \A i \in 1..Len(pre.tree.children) :
                pre.tree.children[i] # blocks.tree =>
                    \A x \in TreeBlocks(pre.tree.children[i]) :
                        get_chain_with_tip(blocks, x) = None

\* A pop that discarded a sibling subtree and left a tree of three levels.
C9_Witness ==
    /\ Popped /\ Len(pre.tree.children) >= 2
    /\ \E tip \in 0..MaxBlocks :
          /\ get_chain_with_tip(blocks, tip) # None
          /\ Len(get_chain_with_tip(blocks, tip)[1]) >= 2

\* C10: the set of the blocks that get_blocks returns is the set of the blocks
\* of the forest: the anchor and every descendant on every branch.
C10_GetBlocksIsForest ==
    SeqSet(get_blocks(blocks)) = TreeBlocks(blocks.tree)

\* A forest with a fork below the anchor's child and a second child.
C10_Witness ==
    /\ Cardinality(LeafPaths) >= 3
    /\ LongestLen >= 3
    /\ Cardinality(SeqSet(get_blocks(blocks))) = 5

\* C19: a pop that returns a block evicts from the cache, in the same step as
\* the re-rooting, every entry that the old anchor created: get_tx_out returns
\* nothing for the old anchor's outpoints, and returns what it returned before
\* for the outpoints of the blocks of the surviving subtree.  A pop that
\* returns nothing evicts no entry.
C19_PopEvictsAnchorOutputs ==
    /\ Popped =>
           /\ \A o \in OutPointsOf(pre.tree.root) :
                  get_tx_out(blocks, o) = None
           /\ \A h \in TreeBlocks(blocks.tree) : \A o \in OutPointsOf(h) :
                  /\ get_tx_out(blocks, o) # None
                  /\ get_tx_out(blocks, o) = get_tx_out(pre, o)
    /\ FailedPop => blocks.tx_out_cache = pre.tx_out_cache

\* A pop that returned the old anchor, whose outpoint the cache held, and left
\* a new anchor with a block above it.
C19_Witness ==
    /\ Popped
    /\ \A o \in OutPointsOf(pre.tree.root) : get_tx_out(pre, o) # None
    /\ Len(blocks.tree.children) >= 1
    /\ blocks.tree.root # pre.tree.root

\* C20: the child that pop promotes depends only on the threshold and on the
\* pushes and the pops that returned a block: the run that made the same
\* pushes and the same pops that returned a block, and none of the pops that
\* returned nothing, has the same anchor and the same blocks, and a pop
\* returns the same block and promotes the same child in both.
C20_PromotionDeterministic ==
    /\ shadow.stability_threshold = blocks.stability_threshold
    /\ shadow.tree.root = blocks.tree.root
    /\ TreeBlocks(shadow.tree) = TreeBlocks(blocks.tree)
    /\ pop(shadow).ret = pop(blocks).ret
    /\ pop(shadow).blocks.tree.root = pop(blocks).blocks.tree.root

\* A pop that returned nothing has changed the order of the anchor's children,
\* blocks were pushed after it, and a pop now promotes one of two children.
C20_Witness ==
    /\ shadow.tree # blocks.tree
    /\ LastPush
    /\ Len(blocks.tree.children) >= 2
    /\ pop(blocks).ret # None
    /\ pop(blocks).blocks.tree.root # blocks.tree.root

\* The number of nodes of a tree.
RECURSIVE NodeCount(_)
RECURSIVE NodeCountIn(_, _)
NodeCountIn(cs, i) ==
    IF i > Len(cs) THEN 0 ELSE NodeCount(cs[i]) + NodeCountIn(cs, i + 1)
NodeCount(t) == 1 + NodeCountIn(t.children, 1)

\* Every node below the root names its parent's block as its previous block.
RECURSIVE WellLinked(_)
WellLinked(t) ==
    \A i \in 1..Len(t.children) :
        /\ prevOf[t.children[i].root] = t.root
        /\ WellLinked(t.children[i])

C23_CacheOnlyForestBlocks ==
    \A h \in Hashes \cup {Anchor} : \A o \in OutPointsOf(h) :
        get_tx_out(blocks, o) # None => h \in TreeBlocks(blocks.tree)

\* C24: the blocks that the pops returned form one chain, in the order of the
\* pops: the first is the anchor given to new, every later one names the one
\* returned before it as its previous block, and no block is returned twice;
\* the anchor of the tree is the block that continues the chain.
C24_PoppedBlocksFormChain ==
    /\ Len(stable) >= 1 => stable[1] = Anchor
    /\ \A i \in 2..Len(stable) : prevOf[stable[i]] = stable[i - 1]
    /\ \A i, j \in 1..Len(stable) : stable[i] = stable[j] => i = j
    /\ Len(stable) >= 1 => prevOf[blocks.tree.root] = stable[Len(stable)]
    /\ Popped => last.popped = Some(stable[Len(stable)])

\* Three pops have returned a block, and the last of them left an anchor
\* with a block above it.
C24_Witness ==
    /\ Len(stable) = 3
    /\ Popped
    /\ Len(blocks.tree.children) >= 1

\* C27: for every tree, get_blocks returns each block of the tree exactly
\* once, so as many blocks as the tree has nodes, also when the tree has
\* several leaves.
C27_GetBlocksEachBlockOnce ==
    LET bs == get_blocks(blocks)
    IN  /\ Len(bs) = NodeCount(blocks.tree)
        /\ \A h \in TreeBlocks(blocks.tree) :
               Cardinality({i \in 1..Len(bs) : bs[i] = h}) = 1

----------------------------------------------------------------------------
(* The properties of ingestion *)

Tx == ingest.tx
NIn == Len(ingest.tx.input)
NOut == Len(ingest.tx.output)
Started == ingest.status # "idle"

\* A fuel that lets a call process every item of the transaction.
NoLimit(tx) == Len(tx.input) + Len(tx.output)

\* The one uninterrupted call from (0, 0) for the transaction in flight, on
\* the set as it was before the transaction's first call.
Uninterrupted ==
    ingest_tx_with_slicing(ingest.start, Tx, ingest.height, 0, 0, NoLimit(Tx))

Spendable(k) == ~is_provably_unspendable(Tx.output[k + 1].script_pubkey)

\* The outpoints named by the inputs lo .. hi - 1 of the transaction.
InputsIn(lo, hi) == {Tx.input[k + 1] : k \in lo..(hi - 1)}

\* The address-index key that insert_utxo writes for output k, if any.
IndexKeys(k) ==
    LET address == AddressFromScript(Tx.output[k + 1].script_pubkey)
    IN  IF address # None /\ AddressFromStrIsOk(AddressToString(address[1]))
        THEN {<<AddressToString(address[1]), ingest.height, <<Tx.txid, k>> >>}
        ELSE {}

\* The entry of the UTXO mapping for output k of the transaction.
EntryOf(k) == [txout |-> Tx.output[k + 1], height |-> ingest.height]

\* C11: calling ingest_tx_with_slicing again with the returned cursor until it
\* returns Done leaves the UTXO mapping and the address index as one
\* uninterrupted call from (0, 0) leaves them, whatever the pauses were, and
\* the resumed calls panic only if the uninterrupted call panics.
C11_ResumedEqualsUninterrupted ==
    /\ ingest.status = "done" =>
           /\ Uninterrupted.ret.kind = "Done"
           /\ utxo_set = Uninterrupted.utxo_set
    /\ ingest.status = "panic" => Uninterrupted.ret.kind = "Panic"

\* A transaction that removed an input and inserted an output, done after a
\* pause among the inputs and a pause among the outputs.
C11_Witness ==
    /\ ingest.status = "done"
    /\ ~is_coin_base(Tx)
    /\ NIn = 2 /\ NOut = 2
    /\ ingest.call.cursor = <<2, 1>>
    /\ Spendable(0) /\ Spendable(1)
    /\ ingest.start # UtxoSetNew

\* The expected UTXO mapping after a call that removed the inputs lo .. hi - 1
\* and processed the outputs from .. to - 1.
UtxosAfter(utxos, lo, hi, from, to) ==
    LET made == {<<Tx.txid, k>> : k \in {n \in from..(to - 1) : Spendable(n)}}
    IN  [o \in (DOMAIN utxos \ InputsIn(lo, hi)) \cup made |->
            IF o \in made THEN EntryOf(o[2]) ELSE utxos[o]]

\* The address-index keys of the entries that the inputs lo .. hi - 1 name.
SpentKeys(utxos, lo, hi) ==
    {<<AddressToString(AddressFromScript(utxos[o].txout.script_pubkey)[1]),
       utxos[o].height, o>> :
        o \in {i \in InputsIn(lo, hi) \cap DOMAIN utxos :
                  AddressFromScript(utxos[i].txout.script_pubkey) # None}}

\* C12: a call at (si, sj) on a non-coinbase transaction that returns
\* Paused((i, j)) either (a) has j = 0 and si <= i < number of inputs, removed
\* exactly the inputs si .. i - 1 and inserted no output, or (b) has
\* i = number of inputs and sj <= j < number of outputs, removed every input
\* from si on and processed exactly the outputs sj .. j - 1.  A call that
\* finds the budget exhausted before its first item changes neither mapping.
C12_PausedCursor ==
    LET si == ingest.call.cursor[1]
        sj == ingest.call.cursor[2]
        i == ingest.ret.cursor[1]
        j == ingest.ret.cursor[2]
        before == ingest.before
    IN  /\ (Started /\ ingest.ret.kind = "Paused" /\ ~is_coin_base(Tx)) =>
              \/ /\ j = 0 /\ si <= i /\ i < NIn
                 /\ InputsIn(si, i) \subseteq DOMAIN before.utxos
                 /\ utxo_set.utxos = UtxosAfter(before.utxos, si, i, 0, 0)
                 /\ utxo_set.address_to_outpoints =
                       before.address_to_outpoints
                           \ SpentKeys(before.utxos, si, i)
              \/ /\ i = NIn /\ sj <= j /\ j < NOut
                 /\ InputsIn(si, NIn) \subseteq DOMAIN before.utxos
                 /\ utxo_set.utxos = UtxosAfter(before.utxos, si, NIn, sj, j)
                 /\ utxo_set.address_to_outpoints =
                       (before.address_to_outpoints
                           \ SpentKeys(before.utxos, si, NIn))
                       \cup UNION {IndexKeys(k) : k \in sj..(j - 1)}
        /\ (Started /\ ingest.call.exhausted) => utxo_set = before

\* A call that removed the two inputs and inserted the first of the two
\* outputs before it paused.
C12_Witness ==
    /\ ingest.ret.kind = "Paused"
    /\ ~is_coin_base(Tx)
    /\ NIn = 2 /\ NOut = 2
    /\ ingest.call.cursor = <<0, 0>>
    /\ ingest.ret.cursor = <<2, 1>>
    /\ Spendable(0)
    /\ IndexKeys(0) # {}

\* C13: ingesting a coinbase transaction removes no entry of the UTXO mapping
\* and none of the address index and never panics over its input, at every
\* start cursor; a coinbase transaction with no outputs leaves both unchanged
\* and returns Done.
C13_CoinbaseRemovesNothing ==
    (Started /\ is_coin_base(Tx)) =>
        /\ DOMAIN ingest.before.utxos \subseteq DOMAIN utxo_set.utxos
        /\ ingest.before.address_to_outpoints
              \subseteq utxo_set.address_to_outpoints
        /\ ingest.ret.kind = "Panic" =>
              ingest.ret.msg = "Cannot insert outpoint: already inserted."
        /\ NOut = 0 => utxo_set = ingest.before /\ ingest.ret.kind = "Done"

\* A coinbase transaction with outputs, resumed at the cursor (1, 1) and done,
\* on a set that held entries before it.
C13_Witness ==
    /\ is_coin_base(Tx)
    /\ ingest.status = "done"
    /\ ingest.call.cursor = <<1, 1>>
    /\ NOut = 2
    /\ DOMAIN ingest.start.utxos # {}
    /\ utxo_set # ingest.before

\* Input k of the transaction names an outpoint that is not in the UTXO
\* mapping when the last call comes to it: not there before the call, or
\* named by an input that the call took before.
AbsentAt(k) ==
    \/ Tx.input[k + 1] \notin DOMAIN ingest.before.utxos
    \/ Tx.input[k + 1] \in InputsIn(ingest.call.cursor[1], k)

\* C14: a call on a non-coinbase transaction that comes to an input whose
\* outpoint is not in the UTXO mapping ends in a panic, never in Done or
\* Paused, also when an earlier input or an earlier call took the outpoint;
\* so a transaction that is done had all its inputs, each named once, in the
\* set before it.
C14_AbsentInputPanics ==
    (Started /\ ~is_coin_base(Tx)) =>
        /\ \A k \in ingest.call.cursor[1]..(NIn - 1) :
               AbsentAt(k) =>
                   \/ ingest.ret.kind = "Panic"
                   \/ /\ ingest.ret.kind = "Paused"
                      /\ ingest.ret.cursor[1] <= k
        /\ ingest.status = "done" =>
               /\ InputsIn(0, NIn) \subseteq DOMAIN ingest.start.utxos
               /\ Cardinality(InputsIn(0, NIn)) = NIn

\* A transaction that names one outpoint in both inputs: the first call took
\* the first input and paused, the second call panicked on the second.
C14_Witness ==
    /\ ingest.status = "panic"
    /\ ingest.ret.msg = "Outpoint not found."
    /\ ~is_coin_base(Tx)
    /\ NIn = 2
    /\ Tx.input[1] = Tx.input[2]
    /\ Tx.input[1] \in DOMAIN ingest.start.utxos
    /\ ingest.call.cursor = <<1, 0>>

\* The outputs that the last call processed.
ProcessedOutputs ==
    CASE ingest.ret.kind = "Done" -> ingest.call.cursor[2]..(NOut - 1)
      [] ingest.ret.kind = "Paused" /\ ingest.ret.cursor[1] = NIn ->
             ingest.call.cursor[2]..(ingest.ret.cursor[2] - 1)
      [] OTHER -> {}

\* C15: inserting an outpoint that is already a key of the UTXO mapping
\* panics unless the outpoint's transaction id is one of the two allow-listed
\* ids; for an allow-listed id the call completes and the mapping holds the
\* newer (output, height) for the outpoint.
C15_DuplicateOutpoint ==
    Started =>
        /\ \A k \in ProcessedOutputs :
               (Spendable(k) /\ <<Tx.txid, k>> \in DOMAIN ingest.before.utxos)
                   => /\ Tx.txid \in DUPLICATE_TX_IDS
                      /\ utxo_set.utxos[<<Tx.txid, k>>] = EntryOf(k)
        /\ (/\ ingest.ret.kind = "Panic"
            /\ ingest.ret.msg = "Cannot insert outpoint: already inserted.")
               => /\ Tx.txid \notin DUPLICATE_TX_IDS
                  /\ \E k \in ingest.call.cursor[2]..(NOut - 1) :
                         /\ Spendable(k)
                         /\ <<Tx.txid, k>> \in DOMAIN ingest.before.utxos
        /\ \A k \in 0..(NOut - 1) :
               LET r == insert_utxo(utxo_set, <<Tx.txid, k>>, Tx.output[k + 1],
                                    ingest.height + 1)
               IN  /\ r.panic <=> /\ <<Tx.txid, k>> \in DOMAIN utxo_set.utxos
                                  /\ Tx.txid \notin DUPLICATE_TX_IDS
                   /\ r.utxo_set.utxos[<<Tx.txid, k>>] =
                          [txout |-> Tx.output[k + 1],
                           height |-> ingest.height + 1]

\* A transaction with an allow-listed id ingested a second time: its outpoint
\* was a key with the earlier height, and is a key with the later height.
C15_Witness ==
    /\ ingest.status = "done"
    /\ Tx.txid \in DUPLICATE_TX_IDS
    /\ NOut >= 1
    /\ Spendable(0)
    /\ <<Tx.txid, 0>> \in DOMAIN ingest.start.utxos
    /\ ingest.start.utxos[<<Tx.txid, 0>>].height < ingest.height
    /\ utxo_set.utxos[<<Tx.txid, 0>>].height = ingest.height

\* C16: after a transaction is done, (txid, k) is a key of the UTXO mapping
\* iff output k of the transaction is not provably unspendable, k being the
\* output's position among all outputs of the transaction, and the entry holds
\* that output; a provably unspendable output has no entry in the UTXO
\* mapping and none in the address index.
C16_SpendableOutputsInserted ==
    ingest.status = "done" =>
        /\ \A k \in 0..(NOut - 1) :
               /\ <<Tx.txid, k>> \in DOMAIN utxo_set.utxos <=> Spendable(k)
               /\ Spendable(k) => utxo_set.utxos[<<Tx.txid, k>>] = EntryOf(k)
               /\ ~Spendable(k) =>
                      \A key \in utxo_set.address_to_outpoints :
                          key[3] # <<Tx.txid, k>>
        /\ \A o \in DOMAIN utxo_set.utxos : o[1] = Tx.txid => o[2] < NOut

\* A transaction whose first output is provably unspendable and whose second
\* output is not: the second output is the key (txid, 1).
C16_Witness ==
    /\ ingest.status = "done"
    /\ NOut = 2
    /\ ~Spendable(0)
    /\ Spendable(1)
    /\ <<Tx.txid, 1>> \in DOMAIN utxo_set.utxos
    /\ <<Tx.txid, 0>> \notin DOMAIN utxo_set.utxos

\* Output k has a script with no address, or with an address whose text does
\* not parse back.
Unaddressed(k) ==
    /\ Spendable(k)
    /\ IndexKeys(k) = {}

\* C17: an output whose script has no address, or has an address whose text
\* fails the second validation, is inserted into the UTXO mapping and adds no
\* entry to the address index; inserting it does not panic, and the ingestion
\* of a transaction of such outputs, with its inputs in the set and its
\* outpoints new, returns Done.
C17_UnaddressedOutputsInserted ==
    /\ ingest.status = "done" =>
           \A k \in 0..(NOut - 1) :
               Unaddressed(k) =>
                   /\ <<Tx.txid, k>> \in DOMAIN utxo_set.utxos
                   /\ utxo_set.utxos[<<Tx.txid, k>>] = EntryOf(k)
                   /\ \A key \in utxo_set.address_to_outpoints :
                          key[3] # <<Tx.txid, k>>
    /\ \A k \in ProcessedOutputs :
           Unaddressed(k) =>
               utxo_set.address_to_outpoints
                   \ UNION {IndexKeys(n) : n \in ProcessedOutputs \ {k}}
                       \subseteq ingest.before.address_to_outpoints
    /\ (/\ Started
        /\ \A k \in 0..(NOut - 1) :
               /\ Unaddressed(k)
               /\ <<Tx.txid, k>> \notin DOMAIN ingest.start.utxos
        /\ NIn = 0 \/ is_coin_base(Tx))
           => /\ ingest.status # "panic"
              /\ Uninterrupted.ret.kind = "Done"

\* A transaction done whose outputs are a script with an address that fails
\* the validation and a script with no address: both are in the UTXO mapping,
\* the address index is as it was.
C17_Witness ==
    /\ ingest.status = "done"
    /\ NOut = 2
    /\ Tx.output[1].script_pubkey = "malformed"
    /\ Tx.output[2].script_pubkey = "nonstandard"
    /\ {<<Tx.txid, 0>>, <<Tx.txid, 1>>} \subseteq DOMAIN utxo_set.utxos
    /\ utxo_set.address_to_outpoints = ingest.start.address_to_outpoints
    /\ utxo_set.address_to_outpoints # {}

\* The outpoints that a transaction inserts: one for every output that is not
\* provably unspendable.
InsertedBy(tx) ==
    {<<tx.txid, k>> : k \in {n \in 0..(Len(tx.output) - 1) :
        ~is_provably_unspendable(tx.output[n + 1].script_pubkey)}}

\* C18: ingesting a transaction T1 and then a transaction T2 whose inputs are
\* exactly the outputs that T1 inserted leaves the UTXO mapping and the
\* address index as they were before T1.  T1 is taken to remove nothing
\* itself and T2 to insert nothing, and every input of T2 names a different
\* output of T1.
C18_SpendingRoundTrip ==
    (/\ Len(ingest.prev) >= 1
     /\ ingest.status \in {"done", "panic"}
     /\ LET T1 == ingest.prev[Len(ingest.prev)].tx
        IN  /\ Len(T1.input) = 0 \/ is_coin_base(T1)
            /\ InsertedBy(T1) # {}
            /\ InputsIn(0, NIn) = InsertedBy(T1)
            /\ NIn = Cardinality(InsertedBy(T1))
            /\ InsertedBy(Tx) = {})
        => /\ ingest.status = "done"
           /\ utxo_set = ingest.prev[Len(ingest.prev)].start

\* The address-index keys of the entries of a UTXO mapping whose script has
\* an address with a text that parses back.
KeysOf(utxos) ==
    {<<AddressToString(AddressFromScript(utxos[o].txout.script_pubkey)[1]),
       utxos[o].height, o>> :
        o \in {x \in DOMAIN utxos :
                  LET address == AddressFromScript(utxos[x].txout.script_pubkey)
                  IN  /\ address # None
                      /\ AddressFromStrIsOk(AddressToString(address[1]))}}

\* C22: after any sequence of completed ingestions without a panic, the
\* overwrites of allow-listed duplicates included, the address index holds
\* (a, h, o) iff the UTXO mapping maps o to an output recorded at height h
\* whose script has the valid address a: no entry is missing and no entry is
\* left for an outpoint that is absent or recorded at another height.
C22_IndexMatchesUtxos ==
    ingest.status \in {"idle", "done"} =>
        utxo_set.address_to_outpoints = KeysOf(utxo_set.utxos)

\* C25: every output that ingestion inserted into the UTXO mapping can be
\* spent by a later ingestion without a panic, whatever its script: for every
\* entry whose script has an address, the key (address, height, outpoint)
\* that remove_inputs asserts is in the address index, and no call panics
\* over a missing key.
C25_InsertedOutputsSpendable ==
    /\ ingest.status \in {"idle", "done", "paused"} =>
           \A o \in DOMAIN utxo_set.utxos :
               LET entry == utxo_set.utxos[o]
                   address == AddressFromScript(entry.txout.script_pubkey)
               IN  address # None =>
                       <<AddressToString(address[1]), entry.height, o>>
                           \in utxo_set.address_to_outpoints
    /\ ingest.ret.msg # "Outpoint not found in the index."

\* The cursor (a, b) is before the cursor (c, d).
LexLess(x, y) == x[1] < y[1] \/ (x[1] = y[1] /\ x[2] < y[2])

\* C26: a call that does not find the budget exhausted at its first item
\* returns, if it pauses, a cursor strictly greater than the cursor it was
\* given, so it has processed an item; for a transaction of n inputs and m
\* outputs at most n + m such calls come after the first one, and when such
\* calls keep coming a paused ingestion of a transaction that can be
\* ingested reaches Done.
C26_ResumedIngestionTerminates ==
    /\ [](/\ (Started /\ ~ingest.call.exhausted /\ ingest.ret.kind = "Paused")
                => LexLess(ingest.call.cursor, ingest.ret.cursor)
          /\ ingest.calls <= Max(1, NIn + NOut))
    /\ (ingest.status = "paused" /\ Uninterrupted.ret.kind = "Done")
           ~> ingest.status = "done"

\* A transaction of two inputs and two outputs that took four calls, each of
\* which processed one item.
C26_Witness ==
    /\ ingest.status = "done"
    /\ ~is_coin_base(Tx)
    /\ NIn = 2 /\ NOut = 2
    /\ ingest.calls = 4
    /\ ingest.call.cursor = <<2, 1>>
    /\ ~ingest.call.exhausted

====
